---------------------------- MODULE Spec2Model ----------------------------
(***************************************************************************)
(* Build-and-publish pipeline of simple-react-app-vite-docker.             *)
(*                                                                         *)
(* The repository is configuration: vite.config.js (base, dev server),     *)
(* the multi-stage Dockerfile, docker/nginx.conf and docker-compose.yml    *)
(* (listed in README.md) and the GitHub Pages workflow (its steps are      *)
(* listed in the deployment FAQ).  The model is the state those files      *)
(* drive: the source tree, the three places a production build runs        *)
(* (local toolchain, Docker build, Pages workflow), what each one          *)
(* publishes, what a client gets back from each server, and the dev        *)
(* server's port binding.                                                  *)
(*                                                                         *)
(* A URL path or a file path is a sequence of tokens, "/" being a token    *)
(* of its own, so that prefixing and double slashes are visible.           *)
(***************************************************************************)
EXTENDS Naturals, Sequences, FiniteSets, TLC

VARIABLES
    tree,        \* version of the sources in the working tree (src/App.jsx)
    lInstalled,  \* local toolchain: node_modules present
    localDist,   \* local toolchain: ./dist
    lServing,    \* local toolchain: python3 -m http.server runs on ./dist
    dPc,         \* Docker build: next instruction (0: no build started)
    dFailedAt,   \* Docker build: instruction that failed in this build (0: none)
    dInstalled,  \* Docker build: deps stage holds node_modules
    dCtx,        \* Docker build: sources copied into the build stage
    dDist,       \* Docker build: /app/dist of the build stage
    image,       \* html root of the tagged prod image
    container,   \* html root of the running nginx container
    cPc,         \* Pages workflow: next step (0: never triggered)
    cStatus,     \* Pages workflow: job status
    cFailedAt,   \* Pages workflow: step that failed in this run (0: none)
    cTree,       \* Pages workflow: sources checked out on the runner
    cInstalled,  \* Pages workflow: node_modules present on the runner
    cRan,        \* Pages workflow: steps that ran to success in this run
    cDist,       \* Pages workflow: dist on the runner
    bundle,      \* Pages workflow: files of the Pages artifact uploaded so far
    live,        \* the active GitHub Pages deployment
    resp,        \* last response a client received
    busy,        \* ports held by other processes where the dev server starts
    dev          \* the dev server process

vars == <<tree, lInstalled, localDist, lServing, dPc, dFailedAt, dInstalled,
          dCtx, dDist, image, container, cPc, cStatus, cFailedAt, cTree,
          cInstalled, cRan, cDist, bundle, live, resp, busy, dev>>

localVars  == <<lInstalled, localDist, lServing>>
dockerVars == <<dPc, dFailedAt, dInstalled, dCtx, dDist, image, container>>
ciVars     == <<cPc, cStatus, cFailedAt, cTree, cInstalled, cRan, cDist,
                 bundle, live>>
devVars    == <<busy, dev>>

----------------------------------------------------------------------------
(* Bounds *)

\* number of distinct versions of the sources
MaxTree == 2

\* ports above the configured one that exist in the model
MaxPortScan == 5

\* internal redirects nginx follows before it answers 500
MaxRedirects == 2

Trees == 0 .. (MaxTree - 1)

----------------------------------------------------------------------------
(* Configuration *)

RepoName == "simple-react-app-vite-docker"

ConfigBase_root == <<"/">>

\* vite.config.js: base
ConfigBase == <<"/", "simple-react-app-vite-docker", "/">>

\* GitHub Pages serves a project site under /<repo>/
PagesSubPath == <<"/", RepoName, "/">>

NginxRoot_subpath == PagesSubPath

\* nginx.conf: root /usr/share/nginx/html is served at "/"
NginxRoot == <<"/">>

\* python3 -m http.server --directory dist serves dist at "/"
HttpServerRoot == <<"/">>

IndexHtml == <<"index.html">>

\* the emitted bundle: assets/index-<hash>.js
AssetFile == <<"assets", "/", "index-*.js">>

NoBody == [kind |-> "none", refs |-> {}, bytes |-> 0]

NoSite == [f \in {} |-> NoBody]

----------------------------------------------------------------------------
(* Production build *)

\* reference written into index.html for emitted file f under base p
Reference(p, f) == p \o f

\* vite build: dist/index.html and dist/assets/index-<hash>.js
ViteBuild(t, p) ==
    [f \in {IndexHtml, AssetFile} |->
        IF f = IndexHtml
        THEN [kind |-> "html", refs |-> {Reference(p, AssetFile)}, bytes |-> 0]
        ELSE [kind |-> "js", refs |-> {}, bytes |-> t]]

Artifacts == {ViteBuild(t, ConfigBase) : t \in Trees}

----------------------------------------------------------------------------
(* Static servers *)

Response(code, body) == [status |-> code, body |-> body]

\* the regular files of site whose URL under serving root r is uri
FilesAt(site, r, uri) == {f \in DOMAIN site : r \o f = uri}

IsFile(site, r, uri) == FilesAt(site, r, uri) # {}

FileAt(site, r, uri) == site[CHOOSE f \in FilesAt(site, r, uri) : TRUE]

\* a try_files parameter: the request's $uri, a fixed uri, or =code
UriVar == [kind |-> "var", path |-> <<>>, code |-> 0]

FixedUri(u) == [kind |-> "uri", path |-> u, code |-> 0]

Code(n) == [kind |-> "code", path |-> <<>>, code |-> n]

TryFilesArgs_no_fallback == <<UriVar, Code(404)>>

\* nginx.conf, location /: try_files $uri /index.html;
TryFilesArgs == <<UriVar, FixedUri(<<"/", "index.html">>)>>

Subst(arg, uri) == IF arg.kind = "var" THEN uri ELSE arg.path

\* try_files: the first parameter before the last that names a regular file
\* is served; otherwise the last parameter is a code or an internal redirect
RECURSIVE TryFiles(_, _, _, _)
TryFiles(site, uri, i, redirects) ==
    LET arg == TryFilesArgs[i] IN
    IF i < Len(TryFilesArgs)
    THEN IF IsFile(site, NginxRoot, Subst(arg, uri))
         THEN Response(200, FileAt(site, NginxRoot, Subst(arg, uri)))
         ELSE TryFiles(site, uri, i + 1, redirects)
    ELSE IF arg.kind = "code"
         THEN Response(arg.code, NoBody)
         ELSE IF redirects = 0
              THEN Response(500, NoBody)
              ELSE TryFiles(site, Subst(arg, uri), 1, redirects - 1)

\* the nginx container of the prod image
NginxServe(site, uri) == TryFiles(site, uri, 1, MaxRedirects)

\* GitHub Pages: the deployment is served under /<repo>/, no fallback
PagesServe(site, uri) ==
    IF IsFile(site, PagesSubPath, uri)
    THEN Response(200, FileAt(site, PagesSubPath, uri))
    ELSE IF uri = PagesSubPath /\ IndexHtml \in DOMAIN site
         THEN Response(200, site[IndexHtml])
         ELSE Response(404, NoBody)

\* python3 -m http.server --directory dist: files and the directory index
HttpServe(site, uri) ==
    IF IsFile(site, HttpServerRoot, uri)
    THEN Response(200, FileAt(site, HttpServerRoot, uri))
    ELSE IF uri = HttpServerRoot /\ IndexHtml \in DOMAIN site
         THEN Response(200, site[IndexHtml])
         ELSE Response(404, NoBody)

Targets == {"nginx", "pages", "http.server"}

\* whether a server of kind g is up, and the tree it serves
Up(g) ==
    CASE g = "nginx" -> container # NoSite
      [] g = "pages" -> live # NoSite
      [] OTHER -> lServing

Served(g) ==
    CASE g = "nginx" -> container
      [] g = "pages" -> live
      [] OTHER -> localDist

Serve(g, uri) ==
    CASE g = "nginx" -> NginxServe(container, uri)
      [] g = "pages" -> PagesServe(live, uri)
      [] OTHER -> HttpServe(localDist, uri)

\* the paths clients ask for
RequestPaths ==
    { <<"/">>,
      <<"/", "index.html">>,
      <<"/", "about">>,
      <<"/", "assets">>,
      <<"/", "assets", "/">>,
      <<"/">> \o AssetFile,
      PagesSubPath,
      PagesSubPath \o IndexHtml,
      PagesSubPath \o AssetFile,
      PagesSubPath \o <<"about">> }

NoResponse == [target |-> "none", uri |-> <<>>, status |-> 0, body |-> NoBody]

\* a client requests uri from server g
Request(g, uri) ==
    /\ Up(g)
    /\ resp' = [target |-> g, uri |-> uri,
                status |-> Serve(g, uri).status, body |-> Serve(g, uri).body]
    /\ UNCHANGED <<tree, localVars, dockerVars, ciVars, devVars>>

----------------------------------------------------------------------------
(* Sources and the local toolchain *)

\* a change of the sources is committed
EditSource(t) ==
    /\ t # tree
    /\ tree' = t
    /\ UNCHANGED <<localVars, dockerVars, ciVars, resp, devVars>>

\* npm install
LocalInstall ==
    /\ ~lInstalled
    /\ lInstalled' = TRUE
    /\ UNCHANGED <<tree, localDist, lServing, dockerVars, ciVars, resp, devVars>>

\* npm run build
LocalBuild ==
    /\ lInstalled
    /\ localDist' = ViteBuild(tree, ConfigBase)
    /\ UNCHANGED <<tree, lInstalled, lServing, dockerVars, ciVars, resp, devVars>>

\* python3 -m http.server 8000 --directory dist
LocalServe ==
    /\ localDist # NoSite
    /\ ~lServing
    /\ lServing' = TRUE
    /\ UNCHANGED <<tree, lInstalled, localDist, dockerVars, ciVars, resp, devVars>>

----------------------------------------------------------------------------
(* Docker: docker compose --profile prod up --build *)

DockerSteps ==
    <<"npm install", "COPY . .", "npm run build", "COPY --from=build", "up">>

DockerEnd == Len(DockerSteps) + 1

DockerAt(name) == dPc \in 1 .. Len(DockerSteps) /\ DockerSteps[dPc] = name

AfterDockerFailure_continue(i) == i + 1

\* a failing instruction aborts the build: no later stage is built
AfterDockerFailure(i) == DockerEnd

DockerStart ==
    /\ dPc \in {0, DockerEnd}
    /\ dPc' = 1
    /\ dFailedAt' = 0
    /\ dInstalled' = FALSE
    /\ dCtx' = {}
    /\ dDist' = NoSite
    /\ UNCHANGED <<tree, localVars, image, container, ciVars, resp, devVars>>

\* deps stage: COPY package.json ./ ; RUN npm install
DockerDeps ==
    /\ DockerAt("npm install")
    /\ dInstalled' = TRUE
    /\ dPc' = dPc + 1
    /\ UNCHANGED <<tree, localVars, dFailedAt, dCtx, dDist, image, container,
                   ciVars, resp, devVars>>

\* build stage: COPY . .
DockerCopy ==
    /\ DockerAt("COPY . .")
    /\ dCtx' = {tree}
    /\ dPc' = dPc + 1
    /\ UNCHANGED <<tree, localVars, dFailedAt, dInstalled, dDist, image,
                   container, ciVars, resp, devVars>>

\* build stage: RUN npm run build
DockerBuild ==
    /\ DockerAt("npm run build")
    /\ dInstalled
    /\ \E t \in dCtx : dDist' = ViteBuild(t, ConfigBase)
    /\ dPc' = dPc + 1
    /\ UNCHANGED <<tree, localVars, dFailedAt, dInstalled, dCtx, image,
                   container, ciVars, resp, devVars>>

\* prod stage: COPY --from=build /app/dist /usr/share/nginx/html
DockerProd ==
    /\ DockerAt("COPY --from=build")
    /\ image' = dDist
    /\ dPc' = dPc + 1
    /\ UNCHANGED <<tree, localVars, dFailedAt, dInstalled, dCtx, dDist,
                   container, ciVars, resp, devVars>>

\* the container is recreated from the image just built
ComposeUp ==
    /\ DockerAt("up")
    /\ container' = image
    /\ dPc' = dPc + 1
    /\ UNCHANGED <<tree, localVars, dFailedAt, dInstalled, dCtx, dDist, image,
                   ciVars, resp, devVars>>

\* an instruction of the build fails
DockerFail ==
    /\ dPc \in 1 .. Len(DockerSteps)
    /\ ~DockerAt("up")
    /\ dFailedAt' = (IF dFailedAt = 0 THEN dPc ELSE dFailedAt)
    /\ dPc' = AfterDockerFailure(dPc)
    /\ UNCHANGED <<tree, localVars, dInstalled, dCtx, dDist, image, container,
                   ciVars, resp, devVars>>

\* starting the container fails: the old one may already be gone
ComposeUpFail ==
    /\ DockerAt("up")
    /\ dFailedAt' = (IF dFailedAt = 0 THEN dPc ELSE dFailedAt)
    /\ dPc' = DockerEnd
    /\ container' \in {container, NoSite}
    /\ UNCHANGED <<tree, localVars, dInstalled, dCtx, dDist, image, ciVars,
                   resp, devVars>>

----------------------------------------------------------------------------
(* GitHub Pages workflow: .github/workflows/static.yml *)

WorkflowSteps ==
    <<"checkout", "setup-node", "npm install", "npm run build",
      "configure-pages", "upload-pages-artifact", "deploy-pages">>

WorkflowEnd == Len(WorkflowSteps) + 1

StepEnabled_always(status) == TRUE

\* a step runs while no earlier step of the job has failed
StepEnabled(status) == status = "running"

CIAt(name) ==
    /\ cPc \in 1 .. Len(WorkflowSteps)
    /\ WorkflowSteps[cPc] = name
    /\ StepEnabled(cStatus)

\* the step at cPc ran to success
CIDone == /\ cRan' = cRan \cup {WorkflowSteps[cPc]}
          /\ cPc' = cPc + 1

\* push to main: a new run on a fresh runner
Trigger ==
    /\ cPc \in {0, WorkflowEnd}
    /\ cPc' = 1
    /\ cStatus' = "running"
    /\ cFailedAt' = 0
    /\ cTree' = {}
    /\ cInstalled' = FALSE
    /\ cRan' = {}
    /\ cDist' = NoSite
    /\ bundle' = NoSite
    /\ UNCHANGED <<tree, localVars, dockerVars, live, resp, devVars>>

Checkout ==
    /\ CIAt("checkout")
    /\ cTree' = {tree}
    /\ CIDone
    /\ UNCHANGED <<tree, localVars, dockerVars, cStatus, cFailedAt, cInstalled,
                   cDist, bundle, live, resp, devVars>>

SetupNode ==
    /\ CIAt("setup-node")
    /\ CIDone
    /\ UNCHANGED <<tree, localVars, dockerVars, cStatus, cFailedAt, cTree,
                   cInstalled, cDist, bundle, live, resp, devVars>>

CIInstall ==
    /\ CIAt("npm install")
    /\ cTree # {}
    /\ cInstalled' = TRUE
    /\ CIDone
    /\ UNCHANGED <<tree, localVars, dockerVars, cStatus, cFailedAt, cTree,
                   cDist, bundle, live, resp, devVars>>

CIBuild ==
    /\ CIAt("npm run build")
    /\ cInstalled
    /\ \E t \in cTree : cDist' = ViteBuild(t, ConfigBase)
    /\ CIDone
    /\ UNCHANGED <<tree, localVars, dockerVars, cStatus, cFailedAt, cTree,
                   cInstalled, bundle, live, resp, devVars>>

ConfigurePages ==
    /\ CIAt("configure-pages")
    /\ CIDone
    /\ UNCHANGED <<tree, localVars, dockerVars, cStatus, cFailedAt, cTree,
                   cInstalled, cDist, bundle, live, resp, devVars>>

\* upload-pages-artifact, path: dist -- one more file of dist is transferred;
\* the step is done with the last one
UploadFile(f) ==
    /\ CIAt("upload-pages-artifact")
    /\ f \in DOMAIN cDist \ DOMAIN bundle
    /\ bundle' = [g \in DOMAIN bundle \cup {f} |-> cDist[g]]
    /\ IF DOMAIN bundle \cup {f} = DOMAIN cDist
       THEN CIDone
       ELSE UNCHANGED <<cRan, cPc>>
    /\ UNCHANGED <<tree, localVars, dockerVars, cStatus, cFailedAt, cTree,
                   cInstalled, cDist, live, resp, devVars>>

\* deploy-pages: the uploaded artifact becomes the active deployment
DeployPages ==
    /\ CIAt("deploy-pages")
    /\ live' = bundle
    /\ cStatus' = (IF cStatus = "running" THEN "success" ELSE cStatus)
    /\ CIDone
    /\ UNCHANGED <<tree, localVars, dockerVars, cFailedAt, cTree, cInstalled,
                   cDist, bundle, resp, devVars>>

\* the step at cPc fails
CIFail ==
    /\ cPc \in 1 .. Len(WorkflowSteps)
    /\ StepEnabled(cStatus)
    /\ cStatus' = "failure"
    /\ cFailedAt' = (IF cFailedAt = 0 THEN cPc ELSE cFailedAt)
    /\ cPc' = cPc + 1
    /\ UNCHANGED <<tree, localVars, dockerVars, cTree, cInstalled, cRan, cDist,
                   bundle, live, resp, devVars>>

\* the step at cPc is skipped
CISkip ==
    /\ cPc \in 1 .. Len(WorkflowSteps)
    /\ ~StepEnabled(cStatus)
    /\ cPc' = cPc + 1
    /\ UNCHANGED <<tree, localVars, dockerVars, cStatus, cFailedAt, cTree,
                   cInstalled, cRan, cDist, bundle, live, resp, devVars>>

----------------------------------------------------------------------------
(* Development server: npm run dev *)

\* vite.config.js: server.port
Port == 5173

\* vite.config.js: server.host
Host == "0.0.0.0"

StrictPort_off == FALSE

\* vite.config.js: server.strictPort
StrictPort == TRUE

Ports == Port .. (Port + MaxPortScan)

Stopped == [state |-> "stopped", code |-> 0, host |-> "", port |-> 0]

\* the ports the server may end up listening on: the configured one when it
\* is free; when it is taken, none under strictPort, else the next free one
ListenPorts(taken) ==
    IF Port \notin taken
    THEN {Port}
    ELSE IF StrictPort
         THEN {}
         ELSE {p \in Ports \ taken : \A q \in Ports \ taken : p <= q}

\* another process binds a free port
OtherBind(p) ==
    /\ p \notin busy
    /\ ~(dev.state = "running" /\ dev.port = p)
    /\ busy' = busy \cup {p}
    /\ UNCHANGED <<tree, localVars, dockerVars, ciVars, resp, dev>>

OtherRelease(p) ==
    /\ p \in busy
    /\ busy' = busy \ {p}
    /\ UNCHANGED <<tree, localVars, dockerVars, ciVars, resp, dev>>

\* vite --host 0.0.0.0
DevStart ==
    /\ dev.state # "running"
    /\ IF ListenPorts(busy) = {}
       THEN dev' = [state |-> "exited", code |-> 1, host |-> "", port |-> 0]
       ELSE \E p \in ListenPorts(busy) :
                dev' = [state |-> "running", code |-> 0, host |-> Host, port |-> p]
    /\ UNCHANGED <<tree, localVars, dockerVars, ciVars, resp, busy>>

DevStop ==
    /\ dev.state = "running"
    /\ dev' = Stopped
    /\ UNCHANGED <<tree, localVars, dockerVars, ciVars, resp, busy>>

----------------------------------------------------------------------------
(* Specifications *)

Init ==
    /\ tree = 0
    /\ lInstalled = FALSE
    /\ localDist = NoSite
    /\ lServing = FALSE
    /\ dPc = 0
    /\ dFailedAt = 0
    /\ dInstalled = FALSE
    /\ dCtx = {}
    /\ dDist = NoSite
    /\ image = NoSite
    /\ container = NoSite
    /\ cPc = 0
    /\ cStatus = "idle"
    /\ cFailedAt = 0
    /\ cTree = {}
    /\ cInstalled = FALSE
    /\ cRan = {}
    /\ cDist = NoSite
    /\ bundle = NoSite
    /\ live = NoSite
    /\ resp = NoResponse
    /\ busy = {}
    /\ dev = Stopped

Edit == \E t \in Trees : EditSource(t)

Local ==
    \/ LocalInstall
    \/ LocalBuild
    \/ LocalServe

Docker ==
    \/ DockerStart
    \/ DockerDeps
    \/ DockerCopy
    \/ DockerBuild
    \/ DockerProd
    \/ ComposeUp
    \/ DockerFail
    \/ ComposeUpFail

Workflow ==
    \/ Trigger
    \/ Checkout
    \/ SetupNode
    \/ CIInstall
    \/ CIBuild
    \/ ConfigurePages
    \/ \E f \in DOMAIN cDist : UploadFile(f)
    \/ DeployPages
    \/ CIFail
    \/ CISkip

Next == Edit \/ Docker \/ Workflow

\* the two pipelines that publish: the Docker build and the Pages workflow
Spec == Init /\ [][Next]_vars

ServeNext ==
    \/ Edit
    \/ Local
    \/ Docker
    \/ \E g \in {"nginx", "http.server"}, uri \in RequestPaths : Request(g, uri)

\* the servers at "/": the nginx container and http.server on ./dist
ServeSpec == Init /\ [][ServeNext]_vars

PagesNext ==
    \/ Edit
    \/ Workflow
    \/ \E uri \in RequestPaths : Request("pages", uri)

\* the Pages workflow and the site it deploys
PagesSpec == Init /\ [][PagesNext]_vars

DevNext ==
    \/ \E p \in Ports : OtherBind(p)
    \/ \E p \in Ports : OtherRelease(p)
    \/ DevStart
    \/ DevStop

\* the development server
DevSpec == Init /\ [][DevNext]_vars

----------------------------------------------------------------------------
(* Properties *)

\* position of a step in a list of steps
Idx(steps, name) == CHOOSE i \in 1 .. Len(steps) : steps[i] = name

\* the step at position i, "none" past the end
StepName(steps, i) == IF i \in 1 .. Len(steps) THEN steps[i] ELSE "none"

NoDoubleSlash(path) ==
    \A i \in 1 .. (Len(path) - 1) : ~(path[i] = "/" /\ path[i + 1] = "/")

\* the targets that serve their tree at "/"
RootTargets == {"nginx", "http.server"}

\* C1: on every publish target that is up, each reference of the entry
\* document is exactly base + hashed file name, has no double slash, and a
\* request to it returns the asset's content with status 200.
C1_ReferencesResolveOnEveryTarget ==
    \A g \in {"nginx", "pages"} :
        Up(g) =>
            \A ref \in Served(g)[IndexHtml].refs :
                /\ ref = ConfigBase \o AssetFile
                /\ NoDoubleSlash(ref)
                /\ Serve(g, ref) = Response(200, Served(g)[AssetFile])

\* C2 as stated: an artifact built with a non-root base and served at "/"
\* answers 404 to a request for the asset reference of its entry document.
C2_MismatchIs404 ==
    (/\ ConfigBase # <<"/">>
     /\ resp.target \in RootTargets
     /\ resp.uri = Reference(ConfigBase, AssetFile))
        => resp.status = 404

\* C2 amended: with a non-root base, what is served at "/" is a complete
\* artifact (build and publish went through), and a request for the asset
\* reference of its entry document never returns the asset: the nginx
\* container answers 200 with the entry document (its fallback rule), and
\* http.server, which has no fallback, answers 404.
C2_MismatchNeverServesAsset ==
    /\ \A g \in RootTargets : Up(g) => Served(g) \in Artifacts
    /\ (/\ ConfigBase # <<"/">>
        /\ resp.target \in RootTargets
        /\ resp.uri = Reference(ConfigBase, AssetFile))
           => /\ resp.body.kind # "js"
              /\ resp.target = "nginx" =>
                     (resp.status = 200 /\ resp.body.kind = "html")
              /\ resp.target = "http.server" => resp.status = 404

\* C2 witness: the nginx container answered the emitted reference with the
\* entry document.
C2_Witness ==
    /\ resp.target = "nginx"
    /\ resp.uri = Reference(ConfigBase, AssetFile)
    /\ resp.status = 200
    /\ resp.body.kind = "html"
    /\ container \in Artifacts

\* C3: every response of the nginx container has status 200; its body is the
\* file when the request path names a file of the served tree, and the entry
\* document otherwise.
C3_FallbackRouting ==
    [][(resp' # resp /\ resp'.target = "nginx") =>
          /\ resp'.status = 200
          /\ resp'.body =
               IF \E f \in DOMAIN container : resp'.uri = <<"/">> \o f
               THEN container[CHOOSE f \in DOMAIN container :
                                  resp'.uri = <<"/">> \o f]
               ELSE container[IndexHtml]]_vars

\* C3 witness: a path that names no file was answered 200 with the entry
\* document.
C3_Witness ==
    /\ resp.target = "nginx"
    /\ resp.uri = <<"/", "about">>
    /\ resp.status = 200
    /\ resp.body.kind = "html"

\* a deployment whose entry document and every asset it references are served
Intact(site) ==
    /\ site \in Artifacts
    /\ PagesServe(site, PagesSubPath \o IndexHtml) = Response(200, site[IndexHtml])
    /\ \A ref \in site[IndexHtml].refs :
           PagesServe(site, ref) = Response(200, site[AssetFile])

\* C4: in every step the Pages deployment stays what it was or becomes the
\* complete artifact the run built and uploaded; it stays what it was in
\* every step of a run in which a step has failed; and a deployment that is
\* live is complete and served.
C4_AtomicPublish ==
    [][/\ live' = live \/ (live' = cDist /\ live' = bundle)
       /\ live' # NoSite => Intact(live')
       /\ (cStatus = "failure" \/ cStatus' = "failure") => live' = live]_vars

\* C4 witness: the upload failed half way while an earlier deployment of
\* other sources is live.
C4_Witness ==
    /\ live \in Artifacts
    /\ cStatus = "failure"
    /\ cFailedAt = Idx(WorkflowSteps, "upload-pages-artifact")
    /\ DOMAIN bundle # {}
    /\ DOMAIN bundle # DOMAIN cDist
    /\ cDist # live

\* C5: after the build step of a run has failed, no step of that run
\* publishes: the Pages artifact and the deployment, the prod image and the
\* container stay as they were.
C5_FailedBuildPublishesNothing ==
    [][/\ cFailedAt = Idx(WorkflowSteps, "npm run build") =>
              /\ live' = live
              /\ bundle' \in {bundle, NoSite}
              /\ cRan' \cap {"upload-pages-artifact", "deploy-pages"} = {}
       /\ dFailedAt = Idx(DockerSteps, "npm run build") =>
              /\ image' = image
              /\ container' = container
              /\ StepName(DockerSteps, dPc') \notin {"COPY --from=build", "up"}]_vars

\* C5 witness: both builds have failed at the build step with an earlier
\* artifact published on each target.
C5_Witness ==
    /\ cFailedAt = Idx(WorkflowSteps, "npm run build")
    /\ live \in Artifacts
    /\ dFailedAt = Idx(DockerSteps, "npm run build")
    /\ container \in Artifacts

\* a step of the run has started: it ran to success, it failed, or (the
\* upload) it has transferred a file
Started(name) ==
    \/ name \in cRan
    \/ cFailedAt = Idx(WorkflowSteps, name)
    \/ name = "upload-pages-artifact" /\ bundle # NoSite

\* C6: in a run, build starts only after install succeeded, the upload only
\* after build succeeded, the activation only after the upload succeeded,
\* and the build's output is built with the base /<repo>/ under which Pages
\* serves the site.
C6_StepOrder ==
    /\ Started("npm run build") => "npm install" \in cRan
    /\ Started("upload-pages-artifact") => "npm run build" \in cRan
    /\ Started("deploy-pages") => "upload-pages-artifact" \in cRan
    /\ "npm run build" \in cRan =>
           cDist \in {ViteBuild(t, PagesSubPath) : t \in cTree}

\* C6 witness: a run went through all of its steps.
C6_Witness ==
    /\ cStatus = "success"
    /\ {"npm install", "npm run build", "upload-pages-artifact",
        "deploy-pages"} \subseteq cRan
    /\ live = cDist

\* C10: a start of the dev server while port 5173 is taken ends in an exit
\* with a nonzero code and nothing listening; a start while it is free ends
\* listening on 0.0.0.0:5173.
C10_StrictPort ==
    [][(dev.state # "running" /\ dev' # dev) =>
          IF 5173 \in busy
          THEN dev'.state = "exited" /\ dev'.code # 0 /\ dev'.port = 0
          ELSE dev' = [state |-> "running", code |-> 0,
                       host |-> "0.0.0.0", port |-> 5173]]_vars

\* C10 witness: the server was started with 5173 taken and exited with 1.
C10_Witness ==
    /\ dev.state = "exited"
    /\ dev.code = 1
    /\ 5173 \in busy

============================================================================
